---- MODULE Spec2Model ----
(***************************************************************************)
(* Book management service (NestJS + TypeORM + SQLite): the Book and       *)
(* Author tables, the two services that write them and the books           *)
(* controller's status endpoint.                                           *)
(*                                                                         *)
(* A table is a set of rows; a row is a record holding the primary key id  *)
(* and one cell per column.  A cell is NULL or Val(v), so that a nullable  *)
(* column and a filled one compare without mixing types.  A DTO is a       *)
(* function from the names of the fields that are present to their plain   *)
(* values: an absent field is outside its DOMAIN.                          *)
(***************************************************************************)
EXTENDS Integers, Sequences, FiniteSets, TLC

VARIABLES
    books,      \* the rows of table 'books'
    authors,    \* the rows of table 'authors'
    bookSeq,    \* the last id the books table has generated
    authorSeq,  \* the last id the authors table has generated
    last,       \* the call that ran last: its arguments and its outcome
    conflicted, \* history: the authors whose remove has failed with Conflict
    served,     \* history: the number of calls served so far
    repeated,   \* history: the last call repeated the one before it, and
                \* both succeeded
    now,        \* the second in which the last book was created
    createdAt,  \* column createdAt of table 'books', by book id
    flight      \* the calls that are running side by side: for each, its
                \* arguments, the step it is at, the entity it has loaded
                \* and its outcome

vars ==
    <<books, authors, bookSeq, authorSeq, last, conflicted, served, repeated,
      now, createdAt, flight>>

----------------------------------------------------------------------------
(* Bounds of the model.                                                    *)

\* Rows the two tables may insert in all (the ids they generate).
MaxRows == 3

\* Calls the application serves in one behaviour.
MaxCalls == 5

\* The calls served before the calls that run side by side begin.
MaxSetUp == 2

----------------------------------------------------------------------------
(* Cells and columns.                                                      *)

NULL == {}

Val(v) == {v}

\* Book.status: 'available' | 'borrowed' | 'reserved'
BookStatus == {"available", "borrowed", "reserved"}

\* The columns of Book besides the generated id and the timestamps.
BookColumns ==
    {"title", "authorId", "authorName", "isbn", "description",
     "publishedDate", "status"}

\* Mutant of BookColumnDefault: no default on the status column.
BookColumnNoDefault(c) == NULL

\* @Column({ default: 'available' }) on Book.status; every other column has
\* no default, so an insert that leaves it out stores NULL.
BookColumnDefault(c) == IF c = "status" THEN Val("available") ELSE NULL

\* The columns of Author besides the generated id and the timestamps.
AuthorColumns == {"firstName", "lastName", "bio", "birthDate"}

AuthorColumnDefault(c) == NULL

----------------------------------------------------------------------------
(* Request inputs.                                                         *)

Isbns == {"978-0-452-28423-4", "978-0-06-112008-4"}

\* The ids a request may name: the ones a table can have generated.
BookIds == 1 .. MaxRows

AuthorIds == 1 .. MaxRows

\* The authors a book dto may name.
AuthorRefs == {1, 2}

\* The ids the requests of a state name: every id the table has generated,
\* and one id it has not generated yet.
BookRequestIds == {id \in BookIds : id <= bookSeq + 1}

AuthorRequestIds == {id \in AuthorIds : id <= authorSeq + 1}

\* f with the pairs of g added (g wins where both are defined).
Merge(f, g) ==
    [k \in (DOMAIN f) \cup (DOMAIN g) |-> IF k \in DOMAIN g THEN g[k] ELSE f[k]]

\* The optional parts a CreateBookDto is sent with: nothing, an author, or
\* every optional field.
CreateBookOptions ==
    {<< >>}
    \cup {[authorId |-> 1]}
    \cup {[authorId |-> 1, authorName |-> "George Orwell",
           description |-> "A dystopian novel",
           publishedDate |-> "1949-06-08", status |-> "borrowed"]}

\* CreateBookDto: title and isbn required, the rest optional, status one of
\* the three values.
CreateBookDtos ==
    {Merge([title |-> "1984", isbn |-> i], o) :
        i \in Isbns, o \in CreateBookOptions}

\* UpdateBookDto: any subset of the fields of CreateBookDto.
UpdateBookDtos ==
    {[isbn |-> i, status |-> "reserved"] : i \in Isbns}
    \cup {[authorId |-> a] : a \in AuthorRefs}

\* What a client may put in the 'status' property of the body of
\* PATCH /books/:id/status: the parameter is bound with @Body('status') and
\* no pipe, so a value outside the enumeration reaches the service.
StatusBodies == BookStatus \cup {"lost"}

\* CreateAuthorDto: firstName and lastName required, bio and birthDate
\* optional.
CreateAuthorDtos ==
    {[firstName |-> "George", lastName |-> "Orwell"],
     [firstName |-> "Harper", lastName |-> "Lee", bio |-> "American novelist",
      birthDate |-> "1926-04-28"]}

\* UpdateAuthorDto: any subset of the fields of CreateAuthorDto.
UpdateAuthorDtos == {[firstName |-> "Eric"]}

----------------------------------------------------------------------------
(* The storage collection (TypeORM repository over SQLite).                *)

\* repository.create(dto): an unsaved entity carrying the fields of the dto.
RepoCreate(dto) == [f \in DOMAIN dto |-> Val(dto[f])]

\* Object.assign(entity, dto): the fields of the dto overwrite the entity's.
ObjectAssign(entity, dto) == Merge(entity, RepoCreate(dto))

\* Mutant of BookInsertRow: the status column always takes its default.
BookInsertRowDefaultStatus(entity, id) ==
    Merge([c \in BookColumns |->
              IF c \in DOMAIN entity /\ c /= "status"
              THEN entity[c]
              ELSE BookColumnDefault(c)],
          [id |-> id])

\* The row an INSERT of the entity writes under a generated id: a column the
\* entity does not carry takes the column's default.
BookInsertRow(entity, id) ==
    Merge([c \in BookColumns |->
              IF c \in DOMAIN entity THEN entity[c] ELSE BookColumnDefault(c)],
          [id |-> id])

AuthorInsertRow(entity, id) ==
    Merge([c \in AuthorColumns |->
              IF c \in DOMAIN entity
              THEN entity[c]
              ELSE AuthorColumnDefault(c)],
          [id |-> id])

\* Mutant of GeneratedId: a plain rowid, one more than the largest id stored.
GeneratedIdReuse(table, seq) ==
    IF table = {} THEN 1
    ELSE (CHOOSE r \in table : \A q \in table : q.id <= r.id).id + 1

\* @PrimaryGeneratedColumn(): SQLite's AUTOINCREMENT hands out the id after
\* the last one the table generated, whether or not that row still exists.
GeneratedId(table, seq) == seq + 1

\* Mutant of UniqueViolation: the isbn column without its unique index.
NoUniqueIndex(table, row) == FALSE

\* @Column({ unique: true }) on Book.isbn: another row holds the isbn.
UniqueViolation(table, row) ==
    \E r \in table : r.id /= row.id /\ r.isbn = row.isbn

\* Mutant of ForeignKeyViolation: the join column without its foreign key.
NoForeignKey(authorTable, row) == FALSE

\* @ManyToOne / @JoinColumn({ name: 'authorId' }) on Book.author: the row
\* names an author that is not in the authors table.
ForeignKeyViolation(authorTable, row) ==
    /\ row.authorId /= NULL
    /\ ~ \E a \in authorTable : Val(a.id) = row.authorId

\* Mutant of BookWriteError: the unique index guards inserts only.
BookWriteErrorInsertOnly(table, authorTable, row) ==
    IF (\A r \in table : r.id /= row.id) /\ UniqueViolation(table, row)
    THEN "SQLITE_CONSTRAINT_UNIQUE"
    ELSE IF ForeignKeyViolation(authorTable, row)
         THEN "SQLITE_CONSTRAINT_FOREIGNKEY"
         ELSE "OK"

\* The error code with which writing the row to 'books' fails, or "OK".
\* SQLite reports the unique index while it writes the row and the foreign
\* key when the statement ends, so the unique index is reported first.
BookWriteError(table, authorTable, row) ==
    IF UniqueViolation(table, row) THEN "SQLITE_CONSTRAINT_UNIQUE"
    ELSE IF ForeignKeyViolation(authorTable, row)
         THEN "SQLITE_CONSTRAINT_FOREIGNKEY"
         ELSE "OK"

\* Mutant of SaveRow: save always inserts.
SaveRowInsert(table, row) == table \cup {row}

\* The table after save(entity) of an entity that carries an id: the row
\* with that id is replaced (one is inserted under it when there is none).
SaveRow(table, row) == {r \in table : r.id /= row.id} \cup {row}

\* The row save(book) writes for a book that findOne has loaded.  The eager
\* relation loads the book's author object next to the authorId column, and
\* both map to the join column 'authorId': while the author object is set,
\* save takes the join column from it and passes over the authorId property,
\* so a new authorId is written only for a book loaded without an author.
BookSaveRow(loaded, entity) ==
    IF loaded.authorId /= NULL
    THEN [entity EXCEPT !.authorId = loaded.authorId]
    ELSE entity

\* Mutant of RemoveRow: the row is left in the table.
RemoveRowKept(table, row) == table

\* repository.remove(entity): the row with the entity's id is deleted.
RemoveRow(table, row) == {r \in table : r.id /= row.id}

\* repository.findOne({ where: { id } }): the rows with that id.
FindById(table, id) == {r \in table : r.id = id}

\* Mutant of BooksOf: the join without its condition on the author.
BooksOfAnyAuthor(bookTable, authorId) ==
    {b \in bookTable : b.authorId /= NULL}

\* Author.books: the join the 'books' relation loads.
BooksOf(bookTable, authorId) == {b \in bookTable : b.authorId = Val(authorId)}

\* Mutant of BooksAfterAuthorSave: the books of the author are cut loose.
BooksAfterAuthorSaveOrphaned(bookTable, entity) ==
    {IF b.authorId = Val(entity.id) THEN [b EXCEPT !.authorId = NULL] ELSE b :
        b \in bookTable}

\* The books table after save(author) of an author that carries its books:
\* the one-to-many side keeps the join column of each book in line with the
\* array, so a book that names the author and is not in the array loses its
\* authorId, and the books of the array are left as they are stored.
BooksAfterAuthorSave(bookTable, entity) ==
    {IF b.authorId = Val(entity.id) /\ \A e \in entity.books : e.id /= b.id
     THEN [b EXCEPT !.authorId = NULL]
     ELSE b : b \in bookTable}

\* Mutant of AuthorDeleteError: the authors table without the foreign key
\* of 'books' on it.
AuthorDeleteUnguarded(bookTable, authorId) == "OK"

\* The error code with which deleting the author row fails, or "OK": the
\* foreign key of 'books' refuses the delete while a book names the author.
AuthorDeleteError(bookTable, authorId) ==
    IF \E b \in bookTable : b.authorId = Val(authorId)
    THEN "SQLITE_CONSTRAINT_FOREIGNKEY"
    ELSE "OK"

----------------------------------------------------------------------------
(* Outcomes.                                                               *)

NoDto == << >>

Outcome(op, id, dto, kind, message, ret, calls) ==
    [op |-> op, id |-> id, dto |-> dto, kind |-> kind, message |-> message,
     ret |-> ret, calls |-> calls]

\* Mutant of BookNotFound: the message without the id.
BookNotFoundNoId(id) == <<"Book not found">>

BookNotFound(id) == <<"Book with ID ", id, " not found">>

BookIsbnNotFound(isbn) == <<"Book with ISBN ", isbn, " not found">>

AuthorNotFound(id) == <<"Author with ID ", id, " not found">>

IsbnConflict == <<"A book with this ISBN already exists">>

AuthorHasBooks(n) ==
    <<"Cannot delete author. Author has ", n, " book(s) associated.">>

\* Mutant of BookSaveFailure: every constraint failure is taken for a
\* duplicate isbn.
BookSaveFailureAnyConstraint(op, id, dto, code, calls) ==
    IF code \in {"SQLITE_CONSTRAINT_UNIQUE", "SQLITE_CONSTRAINT_FOREIGNKEY"}
    THEN Outcome(op, id, dto, "Conflict", IsbnConflict, NULL, calls)
    ELSE Outcome(op, id, dto, "StorageError", <<code>>, NULL, calls)

\* Mutant of BookSaveFailure: the catch block tests for the primary result
\* code, which the driver does not report for a unique violation.
BookSaveFailureWrongCode(op, id, dto, code, calls) ==
    IF code = "SQLITE_CONSTRAINT"
    THEN Outcome(op, id, dto, "Conflict", IsbnConflict, NULL, calls)
    ELSE Outcome(op, id, dto, "StorageError", <<code>>, NULL, calls)

\* What the catch block of BooksService.create and update makes of a failed
\* save: Conflict for the unique code, the error itself otherwise.
BookSaveFailure(op, id, dto, code, calls) ==
    IF code = "SQLITE_CONSTRAINT_UNIQUE"
    THEN Outcome(op, id, dto, "Conflict", IsbnConflict, NULL, calls)
    ELSE Outcome(op, id, dto, "StorageError", <<code>>, NULL, calls)

\* The calls that may run side by side.
Slots == {1, 2}

\* No call is running in the slot.
Idle ==
    [op |-> "none", id |-> 0, dto |-> NoDto, pc |-> "idle", loaded |-> NULL,
     loadedAt |-> 0,
     result |-> Outcome("none", 0, NoDto, "ok", << >>, NULL, << >>)]

----------------------------------------------------------------------------
(* The state after construction: empty tables.                             *)

Init ==
    /\ books = {}
    /\ authors = {}
    /\ bookSeq = 0
    /\ authorSeq = 0
    /\ last = Outcome("none", 0, NoDto, "ok", << >>, NULL, << >>)
    /\ conflicted = {}
    /\ served = 0
    /\ repeated = FALSE
    /\ now = 0
    /\ createdAt = << >>
    /\ flight = [slot \in Slots |-> Idle]

----------------------------------------------------------------------------
(* BooksService.                                                           *)

\* create(createBookDto)
BooksCreate(dto) ==
    LET entity == RepoCreate(dto)
        row    == BookInsertRow(entity, GeneratedId(books, bookSeq))
        code   == BookWriteError(books, authors, row)
        calls  == <<"create", "save">>
    IN  /\ bookSeq + authorSeq < MaxRows
        /\ IF code = "OK"
           THEN /\ books' = books \cup {row}
                /\ bookSeq' = row.id
                /\ last' = Outcome("books.create", 0, dto, "ok", << >>,
                                   Val(row), calls)
           ELSE /\ UNCHANGED <<books, bookSeq>>
                /\ last' = BookSaveFailure("books.create", 0, dto, code, calls)
        /\ UNCHANGED <<authors, authorSeq, conflicted>>

\* findOne(id): the book, or NotFound.
BooksFindOne(id) ==
    LET found == FindById(books, id)
    IN  IF found = {}
        THEN Outcome("books.findOne", id, NoDto, "NotFound", BookNotFound(id),
                     NULL, <<"findOne">>)
        ELSE Outcome("books.findOne", id, NoDto, "ok", << >>, found,
                     <<"findOne">>)

\* findByIsbn(isbn): the book, or NotFound.
BooksFindByIsbn(isbn) ==
    LET found == {b \in books : b.isbn = Val(isbn)}
    IN  IF found = {}
        THEN Outcome("books.findByIsbn", isbn, NoDto, "NotFound",
                     BookIsbnNotFound(isbn), NULL, <<"findOne">>)
        ELSE Outcome("books.findByIsbn", isbn, NoDto, "ok", << >>, found,
                     <<"findOne">>)

\* update(id, updateBookDto)
BooksUpdate(id, dto) ==
    LET found == BooksFindOne(id)
    IN  /\ IF found.kind /= "ok"
           THEN /\ UNCHANGED books
                /\ last' = [found EXCEPT !.op = "books.update", !.dto = dto]
           ELSE LET book   == CHOOSE b \in found.ret : TRUE
                    entity == ObjectAssign(book, dto)
                    row    == BookSaveRow(book, entity)
                    code   == BookWriteError(books, authors, row)
                    calls  == <<"findOne", "save">>
                IN  IF code = "OK"
                    THEN /\ books' = SaveRow(books, row)
                         /\ last' = Outcome("books.update", id, dto, "ok",
                                            << >>, Val(entity), calls)
                    ELSE /\ UNCHANGED books
                         /\ last' = BookSaveFailure("books.update", id, dto,
                                                    code, calls)
        /\ UNCHANGED <<authors, bookSeq, authorSeq, conflicted>>

\* remove(id)
BooksRemove(id) ==
    LET found == BooksFindOne(id)
    IN  /\ IF found.kind /= "ok"
           THEN /\ UNCHANGED books
                /\ last' = [found EXCEPT !.op = "books.remove"]
           ELSE /\ books' = RemoveRow(books, CHOOSE b \in found.ret : TRUE)
                /\ last' = Outcome("books.remove", id, NoDto, "ok", << >>,
                                   NULL, <<"findOne", "remove">>)
        /\ UNCHANGED <<authors, bookSeq, authorSeq, conflicted>>

\* Mutant of SetStatus: a status that is set again falls back to available.
SetStatusToggle(book, status) ==
    IF book.status = Val(status)
    THEN [book EXCEPT !.status = Val("available")]
    ELSE [book EXCEPT !.status = Val(status)]

\* Mutant of SetStatus: a borrowed book cannot be reserved.
SetStatusGuarded(book, status) ==
    IF book.status = Val("borrowed") /\ status = "reserved"
    THEN book
    ELSE [book EXCEPT !.status = Val(status)]

\* book.status = status
SetStatus(book, status) == [book EXCEPT !.status = Val(status)]

\* updateStatus(id, status)
BooksUpdateStatus(id, status) ==
    LET found == BooksFindOne(id)
        dto   == [status |-> status]
    IN  /\ IF found.kind /= "ok"
           THEN /\ UNCHANGED books
                /\ last' = [found EXCEPT !.op = "books.updateStatus",
                                         !.dto = dto]
           ELSE LET book   == CHOOSE b \in found.ret : TRUE
                    entity == SetStatus(book, status)
                    row    == BookSaveRow(book, entity)
                IN  /\ books' = SaveRow(books, row)
                    /\ last' = Outcome("books.updateStatus", id, dto, "ok",
                                       << >>, Val(entity),
                                       <<"findOne", "save">>)
        /\ UNCHANGED <<authors, bookSeq, authorSeq, conflicted>>

\* Mutant of GetAvailableBooks: every book that is not borrowed.
GetAvailableBooksNotBorrowed ==
    Outcome("books.getAvailableBooks", 0, NoDto, "ok", << >>,
            {b \in books : b.status /= Val("borrowed")}, <<"find">>)

\* getAvailableBooks(): the books found with where: { status: 'available' }.
GetAvailableBooks ==
    Outcome("books.getAvailableBooks", 0, NoDto, "ok", << >>,
            {b \in books : b.status = Val("available")}, <<"find">>)

\* Mutant of BooksFindByAuthorId: the condition on the legacy column.
BooksFindByAuthorName(authorId) ==
    Outcome("books.findByAuthorId", authorId, NoDto, "ok", << >>,
            {b \in books : b.authorName /= NULL}, <<"find">>)

\* findByAuthorId(authorId): the books found with where: { authorId }.
BooksFindByAuthorId(authorId) ==
    Outcome("books.findByAuthorId", authorId, NoDto, "ok", << >>,
            {b \in books : b.authorId = Val(authorId)}, <<"find">>)

----------------------------------------------------------------------------
(* AuthorsService.                                                         *)

\* create(createAuthorDto)
AuthorsCreate(dto) ==
    LET entity == RepoCreate(dto)
        row    == AuthorInsertRow(entity, GeneratedId(authors, authorSeq))
    IN  /\ bookSeq + authorSeq < MaxRows
        /\ authors' = authors \cup {row}
        /\ authorSeq' = row.id
        /\ last' = Outcome("authors.create", 0, dto, "ok", << >>, Val(row),
                           <<"create", "save">>)
        /\ UNCHANGED <<books, bookSeq, conflicted>>

\* findOne(id) with relations: ['books']: the author and its books, or
\* NotFound.  ret is the author row with the loaded relation added.
AuthorsFindOne(id) ==
    LET found == FindById(authors, id)
    IN  IF found = {}
        THEN Outcome("authors.findOne", id, NoDto, "NotFound",
                     AuthorNotFound(id), NULL, <<"findOne">>)
        ELSE Outcome("authors.findOne", id, NoDto, "ok", << >>,
                     {Merge(a, [books |-> BooksOf(books, a.id)]) : a \in found},
                     <<"findOne">>)

\* update(id, updateAuthorDto)
AuthorsUpdate(id, dto) ==
    LET found == AuthorsFindOne(id)
    IN  /\ IF found.kind /= "ok"
           THEN /\ UNCHANGED <<authors, books>>
                /\ last' = [found EXCEPT !.op = "authors.update", !.dto = dto]
           ELSE LET author == CHOOSE a \in found.ret : TRUE
                    entity == ObjectAssign(author, dto)
                    row    == [c \in AuthorColumns \cup {"id"} |-> entity[c]]
                IN  /\ authors' = SaveRow(authors, row)
                    /\ books' = BooksAfterAuthorSave(books, entity)
                    /\ last' = Outcome("authors.update", id, dto, "ok", << >>,
                                       Val(entity), <<"findOne", "save">>)
        /\ UNCHANGED <<bookSeq, authorSeq, conflicted>>

\* Mutant of HasBooks: the guard is off by one.
HasBooksOffByOne(author) == Cardinality(author.books) > 1

\* author.books && author.books.length > 0
HasBooks(author) == Cardinality(author.books) > 0

\* remove(id)
AuthorsRemove(id) ==
    LET found == AuthorsFindOne(id)
    IN  /\ IF found.kind /= "ok"
           THEN /\ UNCHANGED <<authors, conflicted>>
                /\ last' = [found EXCEPT !.op = "authors.remove"]
           ELSE LET author == CHOOSE a \in found.ret : TRUE
                    n      == Cardinality(author.books)
                    code   == AuthorDeleteError(books, author.id)
                    calls  == <<"findOne", "remove">>
                IN  IF HasBooks(author)
                    THEN /\ UNCHANGED authors
                         /\ conflicted' = conflicted \cup {id}
                         /\ last' = Outcome("authors.remove", id, NoDto,
                                            "Conflict", AuthorHasBooks(n),
                                            NULL, <<"findOne">>)
                    ELSE IF code = "OK"
                    THEN /\ authors' = RemoveRow(authors, author)
                         /\ UNCHANGED conflicted
                         /\ last' = Outcome("authors.remove", id, NoDto, "ok",
                                            << >>, NULL, calls)
                    ELSE /\ UNCHANGED <<authors, conflicted>>
                         /\ last' = Outcome("authors.remove", id, NoDto,
                                            "StorageError", <<code>>, NULL,
                                            calls)
        /\ UNCHANGED <<books, bookSeq, authorSeq>>

\* The value of a where-condition that was written as undefined.
Undefined == "undefined"

\* where: { books: { id } } on an author loaded with its books: a condition
\* whose value is undefined is left out of the query, so it holds for every
\* author; a condition with a value holds for the authors of that book.
WhereBooksId(author, id) ==
    id = Undefined \/ \E b \in author.books : b.id = id

\* getAuthorsWithBooks(): find with relations: ['books'] and
\* where: { books: { id: undefined } }.
GetAuthorsWithBooks ==
    Outcome("authors.getAuthorsWithBooks", 0, NoDto, "ok", << >>,
            {a \in {Merge(r, [books |-> BooksOf(books, r.id)]) :
                        r \in authors} :
                WhereBooksId(a, Undefined)},
            <<"find">>)

\* getAuthorStats(id)
GetAuthorStats(id) ==
    LET found == AuthorsFindOne(id)
    IN  IF found.kind /= "ok"
        THEN [found EXCEPT !.op = "authors.getAuthorStats"]
        ELSE LET author == CHOOSE a \in found.ret : TRUE
                 count(s) ==
                     Cardinality({b \in author.books : b.status = Val(s)})
             IN  Outcome("authors.getAuthorStats", id, NoDto, "ok", << >>,
                         Val([author         |-> author,
                              totalBooks     |-> Cardinality(author.books),
                              availableBooks |-> count("available"),
                              borrowedBooks  |-> count("borrowed"),
                              reservedBooks  |-> count("reserved")]),
                         <<"findOne">>)

----------------------------------------------------------------------------
(* The name searches of AuthorsService (SQLite LIKE).                       *)

\* The characters of the texts that are stored in or searched for in the
\* name columns.
Chars(text) ==
    CASE text = ""       -> << >>
      [] text = "George" -> <<"G", "e", "o", "r", "g", "e">>
      [] text = "Harper" -> <<"H", "a", "r", "p", "e", "r">>
      [] text = "Eric"   -> <<"E", "r", "i", "c">>
      [] text = "Orwell" -> <<"O", "r", "w", "e", "l", "l">>
      [] text = "Lee"    -> <<"L", "e", "e">>
      [] text = "Geo"    -> <<"G", "e", "o">>
      [] text = "e"      -> <<"e">>
      [] text = "or"     -> <<"o", "r">>
      [] text = "e O"    -> <<"e", " ", "O">>
      [] text = "r L"    -> <<"r", " ", "L">>
      [] text = "_"      -> <<"_">>
      [] text = "George Orwell" ->
            <<"G", "e", "o", "r", "g", "e", " ", "O", "r", "w", "e", "l", "l">>
      [] text = "%"      -> <<"%">>

UpperCase == <<"E", "G", "H", "L", "O">>
LowerCase == <<"e", "g", "h", "l", "o">>

\* LIKE compares the ASCII letters without regard to case.
Fold(char) ==
    IF \E i \in DOMAIN UpperCase : UpperCase[i] = char
    THEN LowerCase[CHOOSE i \in DOMAIN UpperCase : UpperCase[i] = char]
    ELSE char

\* text LIKE pattern: % in the pattern stands for any run of characters, _
\* for any one character, and every other character for itself.
RECURSIVE Like(_, _)
Like(pattern, text) ==
    IF pattern = << >> THEN text = << >>
    ELSE IF Head(pattern) = "%"
    THEN \/ Like(Tail(pattern), text)
         \/ text /= << >> /\ Like(pattern, Tail(text))
    ELSE /\ text /= << >>
         /\ Head(pattern) = "_" \/ Fold(Head(pattern)) = Fold(Head(text))
         /\ Like(Tail(pattern), Tail(text))

\* `%${name}%`
Surround(name) == <<"%">> \o Chars(name) \o <<"%">>

\* if (firstName): an absent and an empty query parameter add no condition.
Truthy(param) == param /= Undefined /\ param /= ""

\* leftJoinAndSelect('author.books', 'books')
WithBooks(row) == Merge(row, [books |-> BooksOf(books, row.id)])

\* The query parameters of GET /authors.
FirstNames == {Undefined, "", "Geo", "e", "_"}
LastNames == {Undefined, "", "Lee", "or"}
Names == {"e O", "r L", "or", "Lee", "%"}

\* findByName(firstName?, lastName?)
FindByName(firstName, lastName) ==
    Outcome("authors.findByName", 0, NoDto, "ok", << >>,
            {WithBooks(a) : a \in
                {r \in authors :
                    /\ Truthy(firstName)
                       => \E f \in r.firstName :
                            Like(Surround(firstName), Chars(f))
                    /\ Truthy(lastName)
                       => \E l \in r.lastName :
                            Like(Surround(lastName), Chars(l))}},
            <<"createQueryBuilder", "getMany">>)

\* CONCAT(author.firstName, ' ', author.lastName)
Concat(row) ==
    LET f == CHOOSE v \in row.firstName : TRUE
        l == CHOOSE v \in row.lastName : TRUE
    IN  Chars(f) \o <<" ">> \o Chars(l)

\* searchByFullName(name)
SearchByFullName(name) ==
    Outcome("authors.searchByFullName", 0, NoDto, "ok", << >>,
            {WithBooks(a) : a \in
                {r \in authors :
                    \/ Like(Surround(name), Concat(r))
                    \/ \E f \in r.firstName : Like(Surround(name), Chars(f))
                    \/ \E l \in r.lastName : Like(Surround(name), Chars(l))}},
            <<"createQueryBuilder", "getMany">>)

\* The author query parameter of GET /books.
AuthorNames == {"George Orwell", "George", "Orwell"}

\* Mutant of BooksFindByAuthor: the books of the authors of that name too.
BooksFindByAuthorLinked(author) ==
    Outcome("books.findByAuthor", 0, NoDto, "ok", << >>,
            {b \in books :
                \/ b.authorName = Val(author)
                \/ \E a \in authors :
                    /\ b.authorId = Val(a.id)
                    /\ Concat(a) = Chars(author)},
            <<"find">>)

\* findByAuthor(author): the books found with where: { authorName: author }.
BooksFindByAuthor(author) ==
    Outcome("books.findByAuthor", 0, NoDto, "ok", << >>,
            {b \in books : b.authorName = Val(author)}, <<"find">>)

\* The orders in which a query may return the rows.
Orderings(rows) ==
    {result \in [1 .. Cardinality(rows) -> rows] :
        \A i, j \in DOMAIN result : result[i] = result[j] => i = j}

\* findAll(): find with order: { createdAt: 'DESC' }. The rows of one
\* createdAt come in an order the query does not say, so ret is the set of
\* the results the call may give.
BooksFindAll ==
    Outcome("books.findAll", 0, NoDto, "ok", << >>,
            {result \in Orderings(books) :
                \A i, j \in DOMAIN result :
                    i < j => createdAt[result[i].id] >= createdAt[result[j].id]},
            <<"find">>)

----------------------------------------------------------------------------
(* The same calls when the storage call fails for a reason of its own.     *)

\* The errors with which storage rejects a call whatever the row is: the
\* database is locked.
StorageFaults == {"SQLITE_BUSY"}

\* create(createBookDto) when save rejects with the fault: the catch block
\* decides what reaches the caller.
BooksCreateFails(dto, fault) ==
    /\ last' = BookSaveFailure("books.create", 0, dto, fault,
                               <<"create", "save">>)
    /\ UNCHANGED <<books, authors, bookSeq, authorSeq, conflicted>>

\* update(id, updateBookDto) when save rejects with the fault.
BooksUpdateFails(id, dto, fault) ==
    LET found == BooksFindOne(id)
    IN  /\ last' = IF found.kind /= "ok"
                   THEN [found EXCEPT !.op = "books.update", !.dto = dto]
                   ELSE BookSaveFailure("books.update", id, dto, fault,
                                        <<"findOne", "save">>)
        /\ UNCHANGED <<books, authors, bookSeq, authorSeq, conflicted>>

\* create(createAuthorDto) when save rejects with the fault: the catch block
\* throws the error again.
AuthorsCreateFails(dto, fault) ==
    /\ last' = Outcome("authors.create", 0, dto, "StorageError", <<fault>>,
                       NULL, <<"create", "save">>)
    /\ UNCHANGED <<books, authors, bookSeq, authorSeq, conflicted>>

\* remove(id) of an author when remove rejects with the fault: the check of
\* the books comes first.
AuthorsRemoveFails(id, fault) ==
    LET found == AuthorsFindOne(id)
    IN  /\ IF found.kind /= "ok"
           THEN /\ UNCHANGED conflicted
                /\ last' = [found EXCEPT !.op = "authors.remove"]
           ELSE LET author == CHOOSE a \in found.ret : TRUE
                IN  IF HasBooks(author)
                    THEN /\ conflicted' = conflicted \cup {id}
                         /\ last' = Outcome("authors.remove", id, NoDto,
                                            "Conflict",
                                            AuthorHasBooks(
                                                Cardinality(author.books)),
                                            NULL, <<"findOne">>)
                    ELSE /\ UNCHANGED conflicted
                         /\ last' = Outcome("authors.remove", id, NoDto,
                                            "StorageError", <<fault>>, NULL,
                                            <<"findOne", "remove">>)
        /\ UNCHANGED <<books, authors, bookSeq, authorSeq>>

----------------------------------------------------------------------------
(* The requests the application serves.                                    *)

\* The application takes one more call.
Accept == served < MaxCalls

\* @CreateDateColumn(): a row that is inserted takes the second of the
\* insert (SQLite's datetime('now')) as its createdAt and keeps it for as
\* long as it is stored.
Stamp(second) ==
    /\ now' = IF bookSeq' = bookSeq THEN now ELSE second
    /\ createdAt' = [id \in {b.id : b \in books'} |->
                        IF id \in DOMAIN createdAt
                        THEN createdAt[id]
                        ELSE second]

\* One more call has been served, in the given second.
ServeAt(second) ==
    /\ served' = served + 1
    /\ repeated' = (/\ last.kind = "ok"
                    /\ last'.kind = "ok"
                    /\ last'.op = last.op
                    /\ last'.id = last.id
                    /\ last'.dto = last.dto)
    /\ Stamp(second)
    /\ UNCHANGED flight

\* One more call has been served, a second or more after the last book was
\* created.
Serve == ServeAt(now + 1)

PostBooks == Accept /\ (\E dto \in CreateBookDtos : BooksCreate(dto)) /\ Serve

PatchBook ==
    /\ Accept
    /\ \E id \in BookRequestIds, dto \in UpdateBookDtos :
        BooksUpdate(id, dto)
    /\ Serve

\* BooksController.updateStatus hands the body's status to the service as
\* it came.
PatchBookStatus ==
    /\ Accept
    /\ \E id \in BookRequestIds, status \in StatusBodies :
        BooksUpdateStatus(id, status)
    /\ Serve

DeleteBook ==
    Accept /\ (\E id \in BookRequestIds : BooksRemove(id)) /\ Serve

PostAuthors ==
    Accept /\ (\E dto \in CreateAuthorDtos : AuthorsCreate(dto)) /\ Serve

PatchAuthor ==
    /\ Accept
    /\ \E id \in AuthorRequestIds, dto \in UpdateAuthorDtos :
        AuthorsUpdate(id, dto)
    /\ Serve

DeleteAuthor ==
    Accept /\ (\E id \in AuthorRequestIds : AuthorsRemove(id)) /\ Serve

Next ==
    \/ PostBooks
    \/ PatchBook
    \/ PatchBookStatus
    \/ DeleteBook
    \/ PostAuthors
    \/ PatchAuthor
    \/ DeleteAuthor

Spec == Init /\ [][Next]_vars

\* The requests whose storage call fails for a reason of its own.
PostBooksFails ==
    /\ Accept
    /\ \E dto \in CreateBookDtos, fault \in StorageFaults :
        BooksCreateFails(dto, fault)
    /\ Serve

PatchBookFails ==
    /\ Accept
    /\ \E id \in BookRequestIds, dto \in UpdateBookDtos,
          fault \in StorageFaults : BooksUpdateFails(id, dto, fault)
    /\ Serve

PostAuthorsFails ==
    /\ Accept
    /\ \E dto \in CreateAuthorDtos, fault \in StorageFaults :
        AuthorsCreateFails(dto, fault)
    /\ Serve

DeleteAuthorFails ==
    /\ Accept
    /\ \E id \in AuthorRequestIds, fault \in StorageFaults :
        AuthorsRemoveFails(id, fault)
    /\ Serve

NextWithFaults ==
    \/ Next
    \/ PostBooksFails
    \/ PatchBookFails
    \/ PostAuthorsFails
    \/ DeleteAuthorFails

\* The application over a storage that may fail.
FaultSpec == Init /\ [][NextWithFaults]_vars

\* A book is created in the second in which the last one was.
PostBooksSameSecond ==
    /\ Accept
    /\ now > 0
    /\ \E dto \in CreateBookDtos : BooksCreate(dto)
    /\ ServeAt(now)

NextAtAnyTime == Next \/ PostBooksSameSecond

\* The application serving its requests one at a time, at any pace.
ClockSpec == Init /\ [][NextAtAnyTime]_vars

----------------------------------------------------------------------------
(* Calls that run side by side.  Each await of a service method is a step:  *)
(* the calls interleave between the load and the write of one method, and   *)
(* the storage runs each load and each write as a whole.                    *)

\* The calls that run side by side.
ConcurrentCalls ==
    {[op |-> "books.create", id |-> 0, dto |-> d] :
        d \in {c \in CreateBookDtos :
                 c.isbn = "978-0-452-28423-4" /\ "status" \notin DOMAIN c}}
    \cup {[op |-> "books.update", id |-> 1, dto |-> [isbn |-> i]] :
            i \in Isbns}
    \cup {[op |-> "books.updateStatus", id |-> 1,
           dto |-> [status |-> "borrowed"]]}
    \cup {[op |-> "books.remove", id |-> 1, dto |-> NoDto]}
    \cup {[op |-> "authors.remove", id |-> 1, dto |-> NoDto]}

\* No call is running.
Quiet == \A slot \in Slots : flight[slot] = Idle

\* The call in the slot is at the step pc of one of the methods.
At(slot, pc, ops) == flight[slot].pc = pc /\ flight[slot].op \in ops

\* The call in the slot goes on to its write with the entity it has loaded.
Loaded(slot, found, second) ==
    flight' = [flight EXCEPT ![slot].pc = "save",
                             ![slot].loaded = found,
                             ![slot].loadedAt = second]

\* The call in the slot returns or throws.
Finish(slot, outcome) ==
    flight' = [flight EXCEPT ![slot].pc = "done", ![slot].result = outcome]

\* createdAt after a step of the call in the slot: a row that is inserted
\* for an entity that was loaded takes the entity's createdAt, a row that is
\* inserted for a new entity the second of the insert.
StampFlight(slot) ==
    /\ now' = IF bookSeq' = bookSeq THEN now ELSE now + 1
    /\ createdAt' = [id \in {b.id : b \in books'} |->
                        IF id \in DOMAIN createdAt
                        THEN createdAt[id]
                        ELSE IF flight[slot].loaded /= NULL
                             THEN flight[slot].loadedAt
                             ELSE now + 1]

\* The tables are set up by calls that are served one at a time.
SetUpAuthors == Quiet /\ served < MaxSetUp /\ PostAuthors

SetUpBooks == Quiet /\ served < MaxSetUp /\ PostBooks

\* A call comes in while another may be running.
Start(slot) ==
    /\ flight[slot] = Idle
    /\ \E call \in ConcurrentCalls :
        flight' = [flight EXCEPT ![slot] =
                      [Idle EXCEPT !.op = call.op,
                                   !.id = call.id,
                                   !.dto = call.dto,
                                   !.pc = IF call.op = "books.create"
                                          THEN "save"
                                          ELSE "load"]]
    /\ UNCHANGED <<books, authors, bookSeq, authorSeq, last, conflicted,
                   served, repeated, now, createdAt>>

\* create(createBookDto): repository.create and await save.
BooksCreateSave(slot) ==
    LET call   == flight[slot]
        entity == RepoCreate(call.dto)
        row    == BookInsertRow(entity, GeneratedId(books, bookSeq))
        code   == BookWriteError(books, authors, row)
        calls  == <<"create", "save">>
    IN  /\ At(slot, "save", {"books.create"})
        /\ IF code = "OK"
           THEN /\ books' = books \cup {row}
                /\ bookSeq' = row.id
                /\ Finish(slot, Outcome(call.op, 0, call.dto, "ok", << >>,
                                        Val(row), calls))
           ELSE /\ UNCHANGED <<books, bookSeq>>
                /\ Finish(slot, BookSaveFailure(call.op, 0, call.dto, code,
                                                calls))
        /\ UNCHANGED <<authors, authorSeq, last, conflicted, served, repeated>>
        /\ StampFlight(slot)

\* const book = await this.findOne(id) of update, updateStatus and remove.
BooksLoad(slot) ==
    LET call  == flight[slot]
        found == BooksFindOne(call.id)
    IN  /\ At(slot, "load",
              {"books.update", "books.updateStatus", "books.remove"})
        /\ IF found.kind /= "ok"
           THEN Finish(slot, [found EXCEPT !.op = call.op, !.dto = call.dto])
           ELSE Loaded(slot, found.ret, createdAt[call.id])
        /\ UNCHANGED <<books, authors, bookSeq, authorSeq, last, conflicted,
                       served, repeated, now, createdAt>>

\* await this.booksRepository.save(book) of update and updateStatus: save
\* writes the entity as the call holds it over the row that is stored now,
\* and inserts it when there is no such row.  update turns a unique
\* violation into Conflict; updateStatus has no catch block.
BooksSave(slot) ==
    LET call   == flight[slot]
        book   == CHOOSE b \in call.loaded : TRUE
        entity == IF call.op = "books.update"
                  THEN ObjectAssign(book, call.dto)
                  ELSE SetStatus(book, call.dto.status)
        row    == BookSaveRow(book, entity)
        code   == BookWriteError(books, authors, row)
        calls  == <<"findOne", "save">>
    IN  /\ At(slot, "save", {"books.update", "books.updateStatus"})
        /\ IF code = "OK"
           THEN /\ books' = SaveRow(books, row)
                /\ Finish(slot, Outcome(call.op, call.id, call.dto, "ok",
                                        << >>, Val(entity), calls))
           ELSE /\ UNCHANGED books
                /\ IF call.op = "books.update"
                   THEN Finish(slot, BookSaveFailure(call.op, call.id,
                                                     call.dto, code, calls))
                   ELSE Finish(slot, Outcome(call.op, call.id, call.dto,
                                             "StorageError", <<code>>, NULL,
                                             calls))
        /\ UNCHANGED <<authors, bookSeq, authorSeq, last, conflicted, served,
                       repeated>>
        /\ StampFlight(slot)

\* await this.booksRepository.remove(book)
BooksRemoveLoaded(slot) ==
    LET call == flight[slot]
        book == CHOOSE b \in call.loaded : TRUE
    IN  /\ At(slot, "save", {"books.remove"})
        /\ books' = RemoveRow(books, book)
        /\ Finish(slot, Outcome(call.op, call.id, NoDto, "ok", << >>, NULL,
                                <<"findOne", "remove">>))
        /\ UNCHANGED <<authors, bookSeq, authorSeq, last, conflicted, served,
                       repeated>>
        /\ StampFlight(slot)

\* const author = await this.findOne(id) of AuthorsService.remove, and the
\* check of author.books that follows it.
AuthorsLoad(slot) ==
    LET call  == flight[slot]
        found == AuthorsFindOne(call.id)
    IN  /\ At(slot, "load", {"authors.remove"})
        /\ IF found.kind /= "ok"
           THEN /\ Finish(slot, [found EXCEPT !.op = call.op])
                /\ UNCHANGED conflicted
           ELSE LET author == CHOOSE a \in found.ret : TRUE
                    n      == Cardinality(author.books)
                IN  IF HasBooks(author)
                    THEN /\ Finish(slot, Outcome(call.op, call.id, NoDto,
                                                 "Conflict", AuthorHasBooks(n),
                                                 NULL, <<"findOne">>))
                         /\ conflicted' = conflicted \cup {call.id}
                    ELSE /\ Loaded(slot, found.ret, 0)
                         /\ UNCHANGED conflicted
        /\ UNCHANGED <<books, authors, bookSeq, authorSeq, last, served,
                       repeated, now, createdAt>>

\* await this.authorsRepository.remove(author)
AuthorsRemoveLoaded(slot) ==
    LET call   == flight[slot]
        author == CHOOSE a \in call.loaded : TRUE
        code   == AuthorDeleteError(books, author.id)
        calls  == <<"findOne", "remove">>
    IN  /\ At(slot, "save", {"authors.remove"})
        /\ IF code = "OK"
           THEN /\ authors' = RemoveRow(authors, author)
                /\ Finish(slot, Outcome(call.op, call.id, NoDto, "ok", << >>,
                                        NULL, calls))
           ELSE /\ UNCHANGED authors
                /\ Finish(slot, Outcome(call.op, call.id, NoDto,
                                        "StorageError", <<code>>, NULL, calls))
        /\ UNCHANGED <<books, bookSeq, authorSeq, last, conflicted, served,
                       repeated, now, createdAt>>

NextConcurrent ==
    \/ SetUpAuthors
    \/ SetUpBooks
    \/ \E slot \in Slots : Start(slot)
    \/ \E slot \in Slots : BooksCreateSave(slot)
    \/ \E slot \in Slots : BooksLoad(slot)
    \/ \E slot \in Slots : BooksSave(slot)
    \/ \E slot \in Slots : BooksRemoveLoaded(slot)
    \/ \E slot \in Slots : AuthorsLoad(slot)
    \/ \E slot \in Slots : AuthorsRemoveLoaded(slot)

\* The application serving calls that run side by side.
ConcurrentSpec == Init /\ [][NextConcurrent]_vars

----------------------------------------------------------------------------
(* Properties.                                                             *)

\* The elements of a sequence.
Range(seq) == {seq[i] : i \in DOMAIN seq}

\* C1: in every reachable state no two Book rows hold the same isbn.
C1_IsbnUnique ==
    \A b1, b2 \in books : b1 /= b2 => b1.isbn /= b2.isbn

\* Two books are stored and the last call was an update that moved a book to
\* another isbn.
C1_Witness ==
    /\ Cardinality(books) = 2
    /\ last.op = "books.update"
    /\ last.kind = "ok"
    /\ "isbn" \in DOMAIN last.dto

\* C2: a create whose isbn a stored Book already holds fails with Conflict
\* ('A book with this ISBN already exists') and leaves the Book table, and
\* so the number of its records, as it was.
C2_CreateDuplicateIsbnConflicts ==
    [][(/\ last'.op = "books.create"
        /\ \E b \in books : b.isbn = Val(last'.dto.isbn))
       => (/\ last'.kind = "Conflict"
           /\ last'.message = <<"A book with this ISBN already exists">>
           /\ books' = books
           /\ Cardinality(books') = Cardinality(books))]_vars

\* A create has just failed with Conflict while a book is stored.
C2_Witness ==
    /\ last.op = "books.create"
    /\ last.kind = "Conflict"
    /\ Cardinality(books) = 1

\* C3: an update of an existing Book whose partial carries the isbn of a
\* different stored Book fails with Conflict, and every Book row is stored
\* afterwards exactly as before: no field of the partial is persisted.
C3_UpdateDuplicateIsbnConflicts ==
    [][(/\ last'.op = "books.update"
        /\ "isbn" \in DOMAIN last'.dto
        /\ \E b \in books : b.id = last'.id
        /\ \E b \in books : b.id /= last'.id /\ b.isbn = Val(last'.dto.isbn))
       => (/\ last'.kind = "Conflict"
           /\ books' = books)]_vars

\* An update carrying another book's isbn and a second field has just failed
\* with Conflict, and the second field would have changed the book.
C3_Witness ==
    /\ last.op = "books.update"
    /\ last.kind = "Conflict"
    /\ "status" \in DOMAIN last.dto
    /\ \E b \in books : b.id = last.id /\ b.status /= Val(last.dto.status)

\* C4: an Author remove while n >= 1 Books name the author fails with
\* Conflict whose message carries n, issues no remove to storage, and the
\* author can still be read afterwards.
C4_RemoveAuthorWithBooksConflicts ==
    [][\A id \in AuthorIds :
        LET owned == {b \in books : b.authorId = Val(id)}
        IN  (/\ last'.op = "authors.remove"
             /\ last'.id = id
             /\ \E a \in authors : a.id = id
             /\ owned /= {})
            => (/\ last'.kind = "Conflict"
                /\ last'.message =
                     <<"Cannot delete author. Author has ", Cardinality(owned),
                       " book(s) associated.">>
                /\ "remove" \notin Range(last'.calls)
                /\ AuthorsFindOne(id)'.kind = "ok")]_vars

\* The remove of an author of two books has just failed with Conflict.
C4_Witness ==
    /\ last.op = "authors.remove"
    /\ last.kind = "Conflict"
    /\ last.message[2] = 2
    /\ \E a \in authors : a.id = last.id

\* C5: a remove of an existing Author that no Book names succeeds, the
\* author cannot be read afterwards, and an author that has been removed is
\* never read again.
C5_RemoveAuthorWithoutBooks ==
    [][\A id \in AuthorIds :
        /\ (/\ last'.op = "authors.remove"
            /\ last'.id = id
            /\ \E a \in authors : a.id = id
            /\ \A b \in books : b.authorId /= Val(id))
           => (/\ last'.kind = "ok"
               /\ AuthorsFindOne(id)'.kind = "NotFound")
        /\ (id <= authorSeq /\ AuthorsFindOne(id).kind = "NotFound")
           => AuthorsFindOne(id)'.kind = "NotFound"]_vars

\* An author whose remove had failed with Conflict has just been removed,
\* after its books were deleted.
C5_Witness ==
    /\ last.op = "authors.remove"
    /\ last.kind = "ok"
    /\ last.id \in conflicted
    /\ AuthorsFindOne(last.id).kind = "NotFound"

\* The statistics getAuthorStats returns for an existing author.
StatsOf(id) == CHOOSE s \in GetAuthorStats(id).ret : TRUE

\* C6: getAuthorStats of an existing Author counts the stored Books that
\* name the author, and among them those of each of the three statuses.
C6_StatsCountStoredBooks ==
    \A a \in authors :
        LET owned == {b \in books : b.authorId = Val(a.id)}
            n(s)  == Cardinality({b \in owned : b.status = Val(s)})
        IN  /\ GetAuthorStats(a.id).kind = "ok"
            /\ StatsOf(a.id).totalBooks = Cardinality(owned)
            /\ StatsOf(a.id).availableBooks = n("available")
            /\ StatsOf(a.id).borrowedBooks = n("borrowed")
            /\ StatsOf(a.id).reservedBooks = n("reserved")

\* Two authors are stored, and an update has just left one of them with one
\* book, which is reserved.
C6_Witness ==
    /\ Cardinality(authors) = 2
    /\ \E a \in authors :
        /\ StatsOf(a.id).totalBooks = 1
        /\ StatsOf(a.id).reservedBooks = 1
        /\ last.op = "books.update"

\* C7: for every Author, getAuthorStats gives
\* totalBooks = availableBooks + borrowedBooks + reservedBooks.
C7_StatsAddUp ==
    \A a \in authors :
        StatsOf(a.id).totalBooks =
            StatsOf(a.id).availableBooks + StatsOf(a.id).borrowedBooks
            + StatsOf(a.id).reservedBooks

\* C8: the status of every stored Book is one of available, borrowed,
\* reserved.
C8_StatusEnumerated ==
    \A b \in books :
        b.status \in {Val("available"), Val("borrowed"), Val("reserved")}

\* The row a successful create has returned.
Created(outcome) == CHOOSE r \in outcome.ret : TRUE

\* After a successful create, findOne of the returned id in the table as it
\* is afterwards finds a row; the row holds the fields of the dto, and
\* absent(c) in a column c the dto leaves out; no row of the table as it was
\* before had the id.
CreateReadsBack(op, columns, before, after, outcome, absent(_)) ==
    (outcome.op = op /\ outcome.kind = "ok")
    => /\ \A r \in before : r.id /= Created(outcome).id
       /\ FindById(after, Created(outcome).id) /= {}
       /\ \A r \in FindById(after, Created(outcome).id) : \A c \in columns :
            r[c] = IF c \in DOMAIN outcome.dto
                   THEN Val(outcome.dto[c])
                   ELSE absent(c)

\* C9 as stated: every optional field the input leaves out reads as empty.
C9_CreateThenGetById ==
    [][/\ CreateReadsBack("books.create", BookColumns, books, books', last',
                          LAMBDA c : NULL)
       /\ CreateReadsBack("authors.create", AuthorColumns, authors, authors',
                          last',
                          LAMBDA c : NULL)]_vars

\* C9 as amended: a status the input leaves out reads as available, every
\* other optional field it leaves out reads as empty.
C9_CreateThenGetByIdDefaultStatus ==
    [][/\ CreateReadsBack("books.create", BookColumns, books, books', last',
                          LAMBDA c : IF c = "status" THEN Val("available")
                                     ELSE NULL)
       /\ CreateReadsBack("authors.create", AuthorColumns, authors, authors',
                          last',
                          LAMBDA c : NULL)]_vars

\* A book has just been created from the required fields alone, next to an
\* author created without its optional fields.
C9_Witness ==
    /\ last.op = "books.create"
    /\ last.kind = "ok"
    /\ DOMAIN last.dto = {"title", "isbn"}
    /\ BooksFindOne(Created(last).id).kind = "ok"
    /\ \E a \in authors : a.bio = NULL

\* The ids of the rows of a table.
IdsOf(table) == {r.id : r \in table}

\* C10: the ids of the rows of each table are pairwise distinct, and an
\* update or updateStatus leaves each table with the same ids and the same
\* number of rows.
C10_IdsUniqueAndImmutable ==
    [][/\ \A r1, r2 \in books' : r1.id = r2.id => r1 = r2
       /\ \A r1, r2 \in authors' : r1.id = r2.id => r1 = r2
       /\ last'.op \in {"books.update", "books.updateStatus", "authors.update"}
          => /\ IdsOf(books') = IdsOf(books)
             /\ IdsOf(authors') = IdsOf(authors)
             /\ Cardinality(books') = Cardinality(books)
             /\ Cardinality(authors') = Cardinality(authors)]_vars

\* Two books are stored and an update has just changed one of them.
C10_Witness ==
    /\ Cardinality(books) = 2
    /\ last.op = "books.update"
    /\ last.kind = "ok"
    /\ \E b \in books : b.id = last.id /\ b.status = Val("reserved")

\* The row an update leaves under the id is the row as it was with the
\* fields of the partial set to the supplied values; every other row of the
\* two tables is as it was.
UpdateWritesPartial(columns, before, after, outcome) ==
    /\ \A r \in before : r.id /= outcome.id => r \in after
    /\ \A r \in after : r.id /= outcome.id => r \in before
    /\ \A old \in FindById(before, outcome.id) :
        /\ Cardinality(FindById(after, outcome.id)) = 1
        /\ \A new \in FindById(after, outcome.id) : \A c \in columns :
             new[c] = IF c \in DOMAIN outcome.dto
                      THEN Val(outcome.dto[c])
                      ELSE old[c]

\* C11: a successful update(id, partial) of a Book or an Author changes, in
\* the stored record with that id, exactly the fields present in the partial
\* to the supplied values, and leaves every other record of both tables as
\* it was.
C11_UpdateChangesExactlyPartial ==
    [][/\ (last'.op = "books.update" /\ last'.kind = "ok")
          => /\ UpdateWritesPartial(BookColumns, books, books', last')
             /\ authors' = authors
       /\ (last'.op = "authors.update" /\ last'.kind = "ok")
          => /\ UpdateWritesPartial(AuthorColumns, authors, authors', last')
             /\ books' = books]_vars

\* C12: every id-addressed operation (Book findOne, update, remove,
\* updateStatus; Author findOne, update, remove, getAuthorStats) called with
\* an id that no row of its table has fails with NotFound, the message names
\* the id, and both tables are left as they were.
C12_MissingIdNotFound ==
    [][/\ \A id \in BookIds : FindById(books, id) = {} =>
            LET read == BooksFindOne(id)
                text == <<"Book with ID ", id, " not found">>
            IN  /\ read.kind = "NotFound"
                /\ read.message = text
                /\ (/\ last'.id = id
                    /\ last'.op \in {"books.update", "books.remove",
                                     "books.updateStatus"})
                   => /\ last'.kind = "NotFound"
                      /\ last'.message = text
                      /\ books' = books
                      /\ authors' = authors
       /\ \A id \in AuthorIds : FindById(authors, id) = {} =>
            LET read  == AuthorsFindOne(id)
                stats == GetAuthorStats(id)
                text  == <<"Author with ID ", id, " not found">>
            IN  /\ read.kind = "NotFound"
                /\ read.message = text
                /\ stats.kind = "NotFound"
                /\ stats.message = text
                /\ (/\ last'.id = id
                    /\ last'.op \in {"authors.update", "authors.remove"})
                   => /\ last'.kind = "NotFound"
                      /\ last'.message = text
                      /\ books' = books
                      /\ authors' = authors]_vars

\* An updateStatus has just failed with NotFound for an id that was removed,
\* while another book and an author are stored.
C12_Witness ==
    /\ last.op = "books.updateStatus"
    /\ last.kind = "NotFound"
    /\ last.id <= bookSeq
    /\ books /= {}
    /\ authors /= {}
    /\ GetAuthorStats(3).kind = "NotFound"

\* C13: remove(id) of an existing Book succeeds whatever its status and
\* authorId and removes exactly that row; afterwards findOne(id) and
\* findByIsbn of the removed book's isbn fail with NotFound, and every other
\* Book row is as it was.
C13_RemoveBook ==
    [][\A b \in books :
        (last'.op = "books.remove" /\ last'.id = b.id)
        => /\ last'.kind = "ok"
           /\ books' = books \ {b}
           /\ authors' = authors
           /\ BooksFindOne(b.id)'.kind = "NotFound"
           /\ \A i \in Isbns : b.isbn = Val(i) =>
                /\ BooksFindByIsbn(i).kind = "ok"
                /\ BooksFindByIsbn(i)'.kind = "NotFound"
                /\ BooksFindByIsbn(i)'.message =
                     <<"Book with ISBN ", i, " not found">>]_vars

\* The only book of an author has just been removed (the author's remove
\* had failed with Conflict for it), and another book is still stored.
C13_Witness ==
    /\ last.op = "books.remove"
    /\ last.kind = "ok"
    /\ books /= {}
    /\ BooksFindOne(last.id).kind = "NotFound"
    /\ \E a \in conflicted : BooksOf(books, a) = {}

C16_CreateStatusDefault ==
    [][(last'.op = "books.create" /\ last'.kind = "ok")
       => /\ FindById(books', Created(last').id) /= {}
          /\ \A r \in FindById(books', Created(last').id) :
               r.status = IF "status" \in DOMAIN last'.dto
                          THEN Val(last'.dto.status)
                          ELSE Val("available")]_vars

\* A book has just been created without a status and is stored as available,
\* next to a book created with status borrowed.
C16_Witness ==
    /\ last.op = "books.create"
    /\ last.kind = "ok"
    /\ "status" \notin DOMAIN last.dto
    /\ \E b \in books : b.id = Created(last).id /\ b.status = Val("available")
    /\ \E b \in books :
        /\ b.id /= Created(last).id
        /\ b.status = Val("borrowed")
        /\ b.description /= NULL

\* C17: getAvailableBooks returns exactly the Books whose status is
\* available in the current state: a Book is out of the result as soon as
\* updateStatus has moved it to borrowed or reserved and in it again as soon
\* as updateStatus has moved it back to available.
C17_AvailableFollowsStatus ==
    [][/\ GetAvailableBooks.ret = {b \in books : b.status = Val("available")}
       /\ GetAvailableBooks'.ret =
            {b \in books' : b.status = Val("available")}
       /\ \A b \in books :
            (/\ last'.op = "books.updateStatus"
             /\ last'.kind = "ok"
             /\ last'.id = b.id)
            => /\ last'.dto.status \in {"borrowed", "reserved"}
                  => \A r \in GetAvailableBooks'.ret : r.id /= b.id
               /\ last'.dto.status = "available"
                  => \E r \in GetAvailableBooks'.ret : r.id = b.id]_vars

\* A book that was created as borrowed has just been moved to available and
\* is in the result, next to a book that is not.
C17_Witness ==
    /\ last.op = "books.updateStatus"
    /\ last.kind = "ok"
    /\ last.dto.status = "available"
    /\ ~ repeated
    /\ \E b \in GetAvailableBooks.ret : b.id = last.id /\ b.description /= NULL
    /\ \E b \in books : b \notin GetAvailableBooks.ret

\* C18: getAuthorsWithBooks returns exactly the Authors that at least one
\* Book names; an Author with no Books is never in the result.
C18_AuthorsWithBooksOnly ==
    {a.id : a \in GetAuthorsWithBooks.ret}
        = {a.id : a \in {r \in authors :
                            \E b \in books : b.authorId = Val(r.id)}}

\* C19: in every reachable state and for every Author a, the books that
\* Author findOne returns with a are the books findByAuthorId(a.id) returns,
\* and both are the stored Books whose authorId is a.id.
C19_AuthorBooksAgree ==
    \A a \in authors :
        LET owned == {b \in books : b.authorId = Val(a.id)}
        IN  /\ AuthorsFindOne(a.id).kind = "ok"
            /\ \A r \in AuthorsFindOne(a.id).ret : r.books = owned
            /\ BooksFindByAuthorId(a.id).ret = owned

\* A book has just been created for one of two stored authors, and carries
\* the legacy author name as well.
C19_Witness ==
    /\ last.op = "books.create"
    /\ last.kind = "ok"
    /\ Cardinality(authors) = 2
    /\ \E a \in authors : BooksFindByAuthorId(a.id).ret = {}
    /\ \E a \in authors : \E b \in BooksFindByAuthorId(a.id).ret :
        b.authorName /= NULL

\* C20: in every reachable state every Book whose authorId is present names
\* an Author that is in the Author table.
C20_AuthorIdRefersToAuthor ==
    \A b \in books :
        b.authorId /= NULL => \E a \in authors : Val(a.id) = b.authorId

\* A book naming a stored author is in the table, and a write of a book that
\* names an author that is not stored has just been refused.
C20_Witness ==
    /\ last.op \in {"books.create", "books.update"}
    /\ last.kind = "StorageError"
    /\ last.message = <<"SQLITE_CONSTRAINT_FOREIGNKEY">>
    /\ \E b \in books : b.authorId /= NULL

\* C21: no Author operation (create, update, remove), whether it succeeds or
\* fails, deletes a Book or changes a field of a Book, its authorId
\* included: the Book table is the same before and after the call.
C21_AuthorCallsLeaveBooks ==
    [][last'.op \in {"authors.create", "authors.update", "authors.remove"}
       => books' = books]_vars

\* An author that two books name has just been updated.
C21_Witness ==
    /\ last.op = "authors.update"
    /\ last.kind = "ok"
    /\ Cardinality(BooksOf(books, last.id)) = 2

\* The calls of an outcome to the storage method.
CallsTo(outcome, method) ==
    Cardinality({i \in DOMAIN outcome.calls : outcome.calls[i] = method})

\* C22: Conflict is raised in two cases only: a Book create or update whose
\* isbn another stored Book holds, and an Author remove while Books name the
\* author.  Every other storage failure (a failed foreign key, a locked
\* database) reaches the caller as the failure itself, not as
\* Conflict or NotFound, after a single call to storage, and writes nothing.
C22_ConflictOnlyInTwoCases ==
    [][/\ last'.kind = "Conflict"
          => \/ /\ last'.op \in {"books.create", "books.update"}
                /\ "isbn" \in DOMAIN last'.dto
                /\ \E b \in books :
                    b.id /= last'.id /\ b.isbn = Val(last'.dto.isbn)
             \/ /\ last'.op = "authors.remove"
                /\ \E b \in books : b.authorId = Val(last'.id)
       /\ last'.kind = "StorageError"
          => /\ last'.message \in
                  {<<"SQLITE_CONSTRAINT_FOREIGNKEY">>, <<"SQLITE_BUSY">>}
             /\ CallsTo(last', "save") + CallsTo(last', "remove") = 1
             /\ books' = books
             /\ authors' = authors
       /\ (/\ last'.op = "books.create"
           /\ "authorId" \in DOMAIN last'.dto
           /\ \A a \in authors : a.id /= last'.dto.authorId
           /\ \A b \in books : b.isbn /= Val(last'.dto.isbn))
          => last'.kind = "StorageError"]_vars

\* An update of the only book the table has had has just failed with the
\* storage's own error.
C22_Witness ==
    /\ last.op = "books.update"
    /\ last.kind = "StorageError"
    /\ last.message = <<"SQLITE_BUSY">>
    /\ FindById(books, last.id) /= {}
    /\ bookSeq = 1

\* part is in text as a run of consecutive characters, letters compared
\* without regard to case as the storage collation does.
Contains(part, text) ==
    \E i \in 0 .. (Len(text) - Len(part)) :
        \A j \in 1 .. Len(part) : Fold(text[i + j]) = Fold(part[j])

NameOf(cell) == Chars(CHOOSE v \in cell : TRUE)

\* C23: findByName(firstName, lastName) returns exactly the Authors whose
\* firstName contains the given firstName, when given, and whose lastName
\* contains the given lastName, when given; when neither is given (absent or
\* empty) it returns every Author.
C23_FindByNameContains ==
    \A firstName \in FirstNames : \A lastName \in LastNames :
        {a.id : a \in FindByName(firstName, lastName).ret}
            = {a.id : a \in
                {r \in authors :
                    /\ Truthy(firstName)
                       => Contains(Chars(firstName), NameOf(r.firstName))
                    /\ Truthy(lastName)
                       => Contains(Chars(lastName), NameOf(r.lastName))}}

\* C24: searchByFullName(name) returns exactly the Authors for which name is
\* a substring of firstName + ' ' + lastName, or of firstName, or of
\* lastName; an Author matching none of the three is not returned.
C24_SearchByFullNameSubstring ==
    \A name \in Names :
        {a.id : a \in SearchByFullName(name).ret}
            = {a.id : a \in
                {r \in authors :
                    \/ Contains(Chars(name), Concat(r))
                    \/ Contains(Chars(name), NameOf(r.firstName))
                    \/ Contains(Chars(name), NameOf(r.lastName))}}

\* C25: findByAuthor(name) returns exactly the Books whose stored authorName
\* is name, whatever their authorId: a Book with another authorName, a longer
\* one included, is not returned, and neither is a Book without authorName
\* whose authorId names an Author whose full name is name.
C25_FindByAuthorExact ==
    \A name \in AuthorNames :
        LET found == BooksFindByAuthor(name).ret
        IN  /\ \A b \in books : b \in found <=> b.authorName = Val(name)
            /\ \A b \in books : \A a \in authors :
                (/\ b.authorName = NULL
                 /\ b.authorId = Val(a.id)
                 /\ Concat(a) = Chars(name))
                => b \notin found

\* George Orwell is stored with two books: the one that carries the author
\* name is found under "George Orwell" and under no part of it, the one that
\* carries the authorId alone is not found.
C25_Witness ==
    /\ \E a \in authors : \E b \in books :
        /\ Concat(a) = Chars("George Orwell")
        /\ b.authorId = Val(a.id)
        /\ b.authorName = NULL
        /\ b \notin BooksFindByAuthor("George Orwell").ret
    /\ \E b \in BooksFindByAuthor("George Orwell").ret : b.authorId /= NULL
    /\ BooksFindByAuthor("George").ret = {}
    /\ BooksFindByAuthor("Orwell").ret = {}

\* C26: findAll returns every stored Book exactly once, and a Book created
\* later (it has the larger generated id) always comes before a Book created
\* earlier, whatever updates or status changes were applied in between.
C26_FindAllNewestFirst ==
    \A result \in BooksFindAll.ret :
        /\ Range(result) = books
        /\ Len(result) = Cardinality(books)
        /\ \A i, j \in DOMAIN result : i < j => result[i].id > result[j].id

\* The other of the two calls that run side by side.
Other(slot) == CHOOSE other \in Slots : other /= slot

\* The call in the slot is a call of the method and has returned or thrown.
Done(slot, op) == flight[slot].op = op /\ flight[slot].pc = "done"

\* The ids of the books the call in the slot has created.
MadeBy(slot) ==
    IF flight[slot].op = "books.create" /\ flight[slot].result.kind = "ok"
    THEN {r.id : r \in flight[slot].result.ret}
    ELSE {}

\* C27: when two Book create calls that carry the same isbn run side by
\* side, no Book stored before them carries that isbn and each names a
\* stored Author or none, then under every interleaving exactly one of them
\* succeeds, the other fails with Conflict, and exactly one Book with that
\* isbn is stored afterwards.
C27_ConcurrentCreateSameIsbn ==
    (/\ \A slot \in Slots : Done(slot, "books.create")
     /\ flight[1].dto.isbn = flight[2].dto.isbn
     /\ \A r \in books :
            r.isbn = Val(flight[1].dto.isbn) => r.id \in MadeBy(1) \cup MadeBy(2)
     /\ \A slot \in Slots :
            "authorId" \in DOMAIN flight[slot].dto
            => \E a \in authors : a.id = flight[slot].dto.authorId)
    => /\ \E slot \in Slots :
            /\ flight[slot].result.kind = "ok"
            /\ flight[Other(slot)].result.kind = "Conflict"
            /\ flight[Other(slot)].result.message = IsbnConflict
       /\ Cardinality({r \in books : r.isbn = Val(flight[1].dto.isbn)}) = 1

\* Two creates with the same isbn, one of them naming a stored author, have
\* both ended: one has made the book and the other one has failed with
\* Conflict.
C27_Witness ==
    /\ \A slot \in Slots : Done(slot, "books.create")
    /\ flight[1].dto /= flight[2].dto
    /\ \E slot \in Slots :
        /\ MadeBy(slot) /= {}
        /\ MadeBy(slot) \subseteq {r.id : r \in books}
        /\ flight[Other(slot)].result.kind = "Conflict"
    /\ \E r \in books : r.authorId /= NULL /\ r.id \in MadeBy(1) \cup MadeBy(2)

\* The call in the slot is an Author remove that has loaded its author and
\* takes its last step, the removal, while a Book names the author.
RemovesReferencedAuthor(slot) ==
    /\ At(slot, "save", {"authors.remove"})
    /\ flight'[slot].pc = "done"
    /\ \E b \in books : b.authorId = Val(flight[slot].id)

\* C28 as stated: in the interleaving in which Author remove has read the
\* author with an empty books set and a Book with that authorId has then
\* been created, remove deletes the author, so that the author is deleted
\* while a Book still references it.
C28_RemoveDeletesReferencedAuthor ==
    [][\A slot \in Slots :
        RemovesReferencedAuthor(slot)
        => /\ flight'[slot].result.kind = "ok"
           /\ FindById(authors', flight[slot].id) = {}
           /\ \E b \in books' : b.authorId = Val(flight[slot].id)]_vars

\* C28, amended: Author remove is not atomic against a concurrent Book
\* create, so it may reach its removal with the empty books set it has read
\* while a Book names the author; the storage's foreign key then refuses the
\* removal, remove fails with that storage error, both tables stay as they
\* are, and after every step each Book that names an Author names a stored
\* one.
C28_RemoveRefusedByForeignKey ==
    [][/\ \A slot \in Slots :
            RemovesReferencedAuthor(slot)
            => /\ flight'[slot].result.kind = "StorageError"
               /\ flight'[slot].result.message
                    = <<"SQLITE_CONSTRAINT_FOREIGNKEY">>
               /\ authors' = authors
               /\ books' = books
       /\ \A b \in books' :
            b.authorId /= NULL => \E a \in authors' : Val(a.id) = b.authorId]_vars

\* An Author remove has read its author without books, the other call has
\* then created a book for that author, and the remove has failed on the
\* foreign key: the author and the book are stored.
C28_Witness ==
    \E slot \in Slots :
        /\ Done(slot, "authors.remove")
        /\ flight[slot].result.kind = "StorageError"
        /\ \A a \in flight[slot].loaded : a.books = {}
        /\ FindById(authors, flight[slot].id) /= {}
        /\ \E b \in books :
            /\ b.authorId = Val(flight[slot].id)
            /\ b.id \in MadeBy(Other(slot))

\* C29: once a Book remove(id) has completed, no later findOne(id) succeeds,
\* also when an update or updateStatus of the same id had loaded the Book
\* before the remove and saves it afterwards.
C29_RemovedBookStaysRemoved ==
    \A slot \in Slots :
        (Done(slot, "books.remove") /\ flight[slot].result.kind = "ok")
        => BooksFindOne(flight[slot].id).kind = "NotFound"

\* C30: when update(id, partial) with a partial without status and
\* updateStatus(id, s) have run side by side on the same Book and both have
\* returned successfully, the stored Book has the fields of partial and the
\* status s, under every interleaving of their load and save steps.
C30_NoLostUpdate ==
    \A slot \in Slots :
        LET update       == flight[slot]
            updateStatus == flight[Other(slot)]
        IN  (/\ Done(slot, "books.update")
             /\ Done(Other(slot), "books.updateStatus")
             /\ update.id = updateStatus.id
             /\ "status" \notin DOMAIN update.dto
             /\ update.result.kind = "ok"
             /\ updateStatus.result.kind = "ok")
            => \E b \in books :
                /\ b.id = update.id
                /\ \A f \in DOMAIN update.dto : b[f] = Val(update.dto[f])
                /\ b.status = Val(updateStatus.dto.status)

====
